---- MODULE Spec2Model ----
(***************************************************************************)
(* Model of the GitHub repository summarizer: the /summarize request       *)
(* handler (src/api/routes.py), the orchestrator                            *)
(* (src/services/orchestrator.py), the GitHub client                        *)
(* (src/services/github.py), the path filter and file prioritizer           *)
(* (src/services/processor.py) and the summarizer front end                 *)
(* (src/services/llm.py).                                                   *)
(*                                                                         *)
(* Python strings that the code inspects character by character (URLs and  *)
(* paths) are sequences of code points, so that sorting, splitting, suffix *)
(* tests and lower-casing are computed as Python computes them.  File      *)
(* bodies and the context string, which reach hundreds of thousands of     *)
(* characters, are run-length encoded: a sequence of <<code point, count>> *)
(* runs in canonical form (no empty run, no two adjacent runs of the same  *)
(* code point), so that two encodings are equal exactly when the strings   *)
(* are.                                                                    *)
(***************************************************************************)
EXTENDS Integers, Sequences, FiniteSets, TLC

\* ------------------------------------------------------------------------
\* Bounds of the model
\* ------------------------------------------------------------------------

\* longest path list handed to prioritize_files in SpecPrioritize
MaxLen == 3

\* largest max_files argument handed to prioritize_files in SpecPrioritize
MaxFilesArg == 3

\* ------------------------------------------------------------------------
\* Python str operations on code-point sequences
\* ------------------------------------------------------------------------

Min(a, b) == IF a <= b THEN a ELSE b

\* a < b on Python str: code-point lexicographic order
StrLess(a, b) ==
  LET n == Min(Len(a), Len(b))
      diffs == {i \in 1..n : a[i] # b[i]}
  IN  IF diffs = {}
        THEN Len(a) < Len(b)
        ELSE LET k == CHOOSE i \in diffs : \A j \in diffs : i <= j
             IN  a[k] < b[k]

\* x in list
InSeq(x, s) == \E i \in 1..Len(s) : s[i] = x

\* s.endswith(suf)
EndsWith(s, suf) ==
  /\ Len(s) >= Len(suf)
  /\ SubSeq(s, Len(s) - Len(suf) + 1, Len(s)) = suf

\* sub in s
Contains(s, sub) ==
  \E i \in 0..(Len(s) - Len(sub)) : SubSeq(s, i + 1, i + Len(sub)) = sub

\* s.lower(), on the ASCII range
Lower(s) == [i \in 1..Len(s) |-> IF s[i] \in 65..90 THEN s[i] + 32 ELSE s[i]]

\* s.rstrip(ch) for a one-character ch: s up to its last other character
RStrip(s, ch) ==
  LET keep == {i \in 1..Len(s) : s[i] # ch}
  IN  IF keep = {} THEN <<>>
      ELSE SubSeq(s, 1, CHOOSE i \in keep : \A j \in keep : j <= i)

\* the split of a + b from the splits of a and b: the last piece of a and
\* the first piece of b are one piece
SplitJoin(pa, pb) ==
  SubSeq(pa, 1, Len(pa) - 1) \o <<pa[Len(pa)] \o pb[1]>> \o Tail(pb)

RECURSIVE SplitRange(_, _, _, _)
SplitRange(s, sep, lo, hi) ==
  IF lo > hi THEN << <<>> >>
  ELSE IF lo = hi THEN (IF s[lo] = sep THEN << <<>>, <<>> >> ELSE << <<s[lo]>> >>)
  ELSE LET mid == (lo + hi) \div 2
       IN  SplitJoin(SplitRange(s, sep, lo, mid), SplitRange(s, sep, mid + 1, hi))

\* s.split(sep) for a one-character sep; ''.split('/') is ['']
Split(s, sep) == SplitRange(s, sep, 1, Len(s))

Slash == 47

Newline == <<10>>

RECURSIVE JoinPrefix(_, _, _)
JoinPrefix(sep, xs, k) ==
  IF k = 0 THEN <<>>
  ELSE IF k = 1 THEN xs[1]
  ELSE JoinPrefix(sep, xs, k - 1) \o sep \o xs[k]

\* sep.join(xs)
Join(sep, xs) == JoinPrefix(sep, xs, Len(xs))

\* x put into an ascending list, after every element that is <= x
InsertSorted(x, s) ==
  LET p == Cardinality({i \in 1..Len(s) : ~StrLess(x, s[i])})
  IN  SubSeq(s, 1, p) \o <<x>> \o SubSeq(s, p + 1, Len(s))

RECURSIVE SortPrefix(_, _)
SortPrefix(xs, k) ==
  IF k = 0 THEN <<>> ELSE InsertSorted(xs[k], SortPrefix(xs, k - 1))

\* list.sort() on a list of str: the ascending, stable rearrangement
ListSort(xs) == SortPrefix(xs, Len(xs))

\* ------------------------------------------------------------------------
\* State
\* ------------------------------------------------------------------------

VARIABLES
  pc,               \* where the handler of the one request stands
  github_url,       \* the request's github_url
  owner,            \* parse_github_url's owner
  repo,             \* parse_github_url's repo
  default_branch,   \* process_github_repo's default_branch
  info_response,    \* the response get_repo_info received
  tree_response,    \* the response get_repo_tree received
  clean_paths,      \* process_github_repo's clean_paths
  file_tree_str,    \* process_github_repo's file_tree_str
  priority_paths,   \* process_github_repo's priority_paths
  tasks,            \* fetch_tasks: per task, whether it is done, the status
                    \* it received and the string it returned
  contents,         \* what asyncio.gather returned
  context_string,   \* process_github_repo's context_string
  summary_calls,    \* the arguments of each generate_summary call
  prompts,          \* the file_contents of each prompt sent to the model
  requests,         \* every remote call issued, in the order issued
  exc,              \* the exception that left process_github_repo
  response,         \* the HTTP response of summarize_repo
  pf_given,         \* prioritize_files called on its own: the list as given
  pf_paths,         \* ... the caller's list object
  pf_max_files,     \* ... the max_files argument
  pf_result,        \* ... the returned list
  pf_pc             \* ... "called", then "returned"

pipeline_vars ==
  <<pc, github_url, owner, repo, default_branch, info_response, tree_response,
    clean_paths, file_tree_str, priority_paths, tasks, contents,
    context_string, summary_calls, prompts, requests, exc, response>>

pf_vars == <<pf_given, pf_paths, pf_max_files, pf_result, pf_pc>>

vars == <<pipeline_vars, pf_vars>>

\* ------------------------------------------------------------------------
\* src/services/processor.py
\* ------------------------------------------------------------------------

IGNORE_PATTERNS ==
  <<
    <<42, 46, 112, 110, 103>>,   \* '*.png'
    <<42, 46, 106, 112, 103>>,   \* '*.jpg'
    <<42, 46, 106, 112, 101, 103>>,   \* '*.jpeg'
    <<42, 46, 103, 105, 102>>,   \* '*.gif'
    <<42, 46, 105, 99, 111>>,   \* '*.ico'
    <<42, 46, 112, 100, 102>>,   \* '*.pdf'
    <<42, 46, 101, 111, 116>>,   \* '*.eot'
    <<42, 46, 115, 118, 103>>,   \* '*.svg'
    <<42, 46, 116, 116, 102>>,   \* '*.ttf'
    <<42, 46, 119, 111, 102, 102>>,   \* '*.woff'
    <<42, 46, 119, 111, 102, 102, 50>>,   \* '*.woff2'
    <<42, 46, 109, 112, 52>>,   \* '*.mp4'
    <<42, 46, 119, 101, 98, 109>>,   \* '*.webm'
    <<42, 46, 109, 112, 51>>,   \* '*.mp3'
    <<42, 46, 119, 97, 118>>,   \* '*.wav'
    <<42, 46, 122, 105, 112>>,   \* '*.zip'
    <<42, 46, 116, 97, 114>>,   \* '*.tar'
    <<42, 46, 103, 122>>,   \* '*.gz'
    <<42, 46, 55, 122>>,   \* '*.7z'
    <<42, 46, 101, 120, 101>>,   \* '*.exe'
    <<42, 46, 100, 108, 108>>,   \* '*.dll'
    <<42, 46, 115, 111>>,   \* '*.so'
    <<42, 46, 100, 121, 108, 105, 98>>,   \* '*.dylib'
    <<110, 111, 100, 101, 95, 109, 111, 100, 117, 108, 101, 115, 47>>,   \* 'node_modules/'
    <<118, 101, 110, 118, 47>>,   \* 'venv/'
    <<46, 118, 101, 110, 118, 47>>,   \* '.venv/'
    <<101, 110, 118, 47>>,   \* 'env/'
    <<46, 101, 110, 118>>,   \* '.env'
    <<98, 117, 105, 108, 100, 47>>,   \* 'build/'
    <<100, 105, 115, 116, 47>>,   \* 'dist/'
    <<116, 97, 114, 103, 101, 116, 47>>,   \* 'target/'
    <<111, 117, 116, 47>>,   \* 'out/'
    <<95, 95, 112, 121, 99, 97, 99, 104, 101, 95, 95, 47>>,   \* '__pycache__/'
    <<42, 46, 112, 121, 99>>,   \* '*.pyc'
    <<46, 110, 101, 120, 116, 47>>,   \* '.next/'
    <<46, 110, 117, 120, 116, 47>>,   \* '.nuxt/'
    <<46, 99, 97, 99, 104, 101, 47>>,   \* '.cache/'
    <<46, 103, 105, 116, 47>>,   \* '.git/'
    <<46, 103, 105, 116, 104, 117, 98, 47>>,   \* '.github/'
    <<46, 118, 115, 99, 111, 100, 101, 47>>,   \* '.vscode/'
    <<46, 105, 100, 101, 97, 47>>,   \* '.idea/'
    <<42, 46, 105, 109, 108>>,   \* '*.iml'
    <<112, 97, 99, 107, 97, 103, 101, 45, 108, 111, 99, 107, 46, 106, 115, 111, 110>>,   \* 'package-lock.json'
    <<121, 97, 114, 110, 46, 108, 111, 99, 107>>,   \* 'yarn.lock'
    <<112, 110, 112, 109, 45, 108, 111, 99, 107, 46, 121, 97, 109, 108>>,   \* 'pnpm-lock.yaml'
    <<112, 111, 101, 116, 114, 121, 46, 108, 111, 99, 107>>,   \* 'poetry.lock'
    <<80, 105, 112, 102, 105, 108, 101, 46, 108, 111, 99, 107>>,   \* 'Pipfile.lock'
    <<71, 101, 109, 102, 105, 108, 101, 46, 108, 111, 99, 107>>,   \* 'Gemfile.lock'
    <<67, 97, 114, 103, 111, 46, 108, 111, 99, 107>>,   \* 'Cargo.lock'
    <<95, 95, 105, 110, 105, 116, 95, 95, 46, 112, 121>>   \* '__init__.py'
  >>

\* One pattern of IGNORE_PATTERNS matched against a file path with
\* gitignore (GitWildMatchPattern) semantics.  The list holds three shapes,
\* none with an inner '/', so each applies at any depth:
\*   "*.ext"  some path segment ends with ".ext"
\*   "name/"  some directory segment (one that is not the last) is "name"
\*   "name"   some segment, directory or file, is "name"
GitWildMatch(pattern, path) ==
  LET segs == Split(path, Slash)
  IN  IF pattern[1] = 42
        THEN \E i \in 1..Len(segs) : EndsWith(segs[i], Tail(pattern))
      ELSE IF pattern[Len(pattern)] = Slash
        THEN \E i \in 1..(Len(segs) - 1) :
               segs[i] = SubSeq(pattern, 1, Len(pattern) - 1)
      ELSE \E i \in 1..Len(segs) : segs[i] = pattern

\* spec.match_file(path)
match_file(path) ==
  \E k \in 1..Len(IGNORE_PATTERNS) : GitWildMatch(IGNORE_PATTERNS[k], path)

\* [path for path in paths[:k] if not spec.match_file(path)]
RECURSIVE FilterPrefix(_, _)
FilterPrefix(paths, k) ==
  IF k = 0 THEN <<>>
  ELSE LET before == FilterPrefix(paths, k - 1)
       IN  IF ~match_file(paths[k]) THEN Append(before, paths[k]) ELSE before

\* [path for path in paths if not spec.match_file(path)]
filter_paths(paths) == FilterPrefix(paths, Len(paths))

\* build_tree_string sorts the caller's list in place and joins it; the
\* pair is <<the list as the call leaves it, the returned string>>
build_tree_string(paths) ==
  LET sorted == ListSort(paths) IN <<sorted, Join(Newline, sorted)>>

key_files ==
  <<
    <<82, 69, 65, 68, 77, 69, 46, 109, 100>>,   \* 'README.md'
    <<82, 69, 65, 68, 77, 69>>,   \* 'README'
    <<112, 97, 99, 107, 97, 103, 101, 46, 106, 115, 111, 110>>,   \* 'package.json'
    <<112, 121, 112, 114, 111, 106, 101, 99, 116, 46, 116, 111, 109, 108>>,   \* 'pyproject.toml'
    <<114, 101, 113, 117, 105, 114, 101, 109, 101, 110, 116, 115, 46, 116, 120, 116>>,   \* 'requirements.txt'
    <<68, 111, 99, 107, 101, 114, 102, 105, 108, 101>>,   \* 'Dockerfile'
    <<100, 111, 99, 107, 101, 114, 45, 99, 111, 109, 112, 111, 115, 101, 46, 121, 109, 108>>,   \* 'docker-compose.yml'
    <<115, 101, 116, 117, 112, 46, 112, 121>>,   \* 'setup.py'
    <<103, 111, 46, 109, 111, 100>>,   \* 'go.mod'
    <<67, 97, 114, 103, 111, 46, 116, 111, 109, 108>>   \* 'Cargo.toml'
  >>

core_names ==
  <<
    <<109, 97, 105, 110, 46, 112, 121>>,   \* 'main.py'
    <<97, 112, 112, 46, 112, 121>>,   \* 'app.py'
    <<105, 110, 100, 101, 120, 46, 106, 115>>,   \* 'index.js'
    <<105, 110, 100, 101, 120, 46, 116, 115>>,   \* 'index.ts'
    <<97, 112, 112, 46, 106, 115>>,   \* 'app.js'
    <<97, 112, 112, 46, 116, 115>>,   \* 'app.ts'
    <<109, 97, 105, 110, 46, 103, 111>>,   \* 'main.go'
    <<109, 97, 105, 110, 46, 114, 115>>   \* 'main.rs'
  >>

source_exts ==
  <<
    <<46, 112, 121>>,   \* '.py'
    <<46, 106, 115>>,   \* '.js'
    <<46, 116, 115>>,   \* '.ts'
    <<46, 103, 111>>,   \* '.go'
    <<46, 114, 115>>,   \* '.rs'
    <<46, 106, 97, 118, 97>>,   \* '.java'
    <<46, 99, 112, 112>>,   \* '.cpp'
    <<46, 99>>,   \* '.c'
    <<46, 104>>,   \* '.h'
    <<46, 99, 115>>,   \* '.cs'
    <<46, 114, 98>>,   \* '.rb'
    <<46, 112, 104, 112>>   \* '.php'
  >>

\* path.split('/')[-1]
Filename(path) == LET segs == Split(path, Slash) IN segs[Len(segs)]

\* len(path.split('/'))
Depth(path) == Len(Split(path, Slash))

\* "readme", the substring looked for in the lower-cased file name
readme == <<114, 101, 97, 100, 109, 101>>

\* Category 1 test: filename in key_files or "readme" in filename.lower()
IsKeyFile(path) ==
  \/ InSeq(Filename(path), key_files)
  \/ Contains(Lower(Filename(path)), readme)

\* Category 2 test: filename in core_names and depth <= 3
IsCoreFile(path) == InSeq(Filename(path), core_names) /\ Depth(path) <= 3

\* Category 3 test: any(path.endswith(ext) for ext in source_exts)
IsSourceFile(path) == \E k \in 1..Len(source_exts) : EndsWith(path, source_exts[k])

\* the Category 1 loop after its first k iterations: every matching path
\* that was not yet in priority_files has been appended
RECURSIVE Category1Loop(_, _, _)
Category1Loop(paths, k, priority_files) ==
  IF k = 0 THEN priority_files
  ELSE LET before == Category1Loop(paths, k - 1, priority_files)
       IN  IF IsKeyFile(paths[k]) /\ ~InSeq(paths[k], before)
             THEN Append(before, paths[k])
             ELSE before

\* the Category 2 loop after its first k iterations
RECURSIVE Category2Loop(_, _, _)
Category2Loop(paths, k, priority_files) ==
  IF k = 0 THEN priority_files
  ELSE LET before == Category2Loop(paths, k - 1, priority_files)
       IN  IF IsCoreFile(paths[k]) /\ ~InSeq(paths[k], before)
             THEN Append(before, paths[k])
             ELSE before

\* the Category 3 loop after its first k iterations: the same, but the loop
\* breaks once max_files paths are selected
RECURSIVE FillLoop(_, _, _, _)
FillLoop(paths, max_files, k, priority_files) ==
  IF k = 0 THEN priority_files
  ELSE LET before == FillLoop(paths, max_files, k - 1, priority_files)
       IN  IF Len(before) >= max_files THEN before
           ELSE IF IsSourceFile(paths[k]) /\ ~InSeq(paths[k], before)
             THEN Append(before, paths[k])
             ELSE before

\* xs[:n] for n >= 0
Prefix(xs, n) == SubSeq(xs, 1, Min(n, Len(xs)))

\* faulty variant: the list is processed in the order given
SortPathsOmitted(paths) == paths

\* paths.sort(), the first statement of prioritize_files
SortPaths(paths) == ListSort(paths)

\* faulty variant: the Category 3 loop runs before the other two
SelectPriorityFillFirst(sorted, max_files) ==
  LET category3 == FillLoop(sorted, max_files, Len(sorted), <<>>)
      category1 == Category1Loop(sorted, Len(sorted), category3)
  IN  Category2Loop(sorted, Len(sorted), category1)

\* the selection as the three loops leave it, before the final slice
SelectPriority(sorted, max_files) ==
  LET category1 == Category1Loop(sorted, Len(sorted), <<>>)
      category2 == Category2Loop(sorted, Len(sorted), category1)
  IN  FillLoop(sorted, max_files, Len(sorted), category2)

\* faulty variant: the selection is returned whole
FinalSliceOmitted(priority_files, max_files) == priority_files

\* return priority_files[:max_files]
FinalSlice(priority_files, max_files) == Prefix(priority_files, max_files)

\* prioritize_files(paths, max_files): the returned list
prioritize_files(paths, max_files) ==
  FinalSlice(SelectPriority(SortPaths(paths), max_files), max_files)

\* ------------------------------------------------------------------------
\* Run-length encoded strings (file bodies, the context string)
\* ------------------------------------------------------------------------

\* the string of n copies of code point c
Runs(c, n) == IF n = 0 THEN <<>> ELSE << <<c, n>> >>

\* a + b
RCat(a, b) ==
  IF a = <<>> THEN b
  ELSE IF b = <<>> THEN a
  ELSE IF a[Len(a)][1] = b[1][1]
    THEN SubSeq(a, 1, Len(a) - 1)
         \o << <<b[1][1], a[Len(a)][2] + b[1][2]>> >>
         \o Tail(b)
    ELSE a \o b

RECURSIVE RStrRange(_, _, _)
RStrRange(s, lo, hi) ==
  IF lo > hi THEN <<>>
  ELSE IF lo = hi THEN << <<s[lo], 1>> >>
  ELSE LET mid == (lo + hi) \div 2
       IN  RCat(RStrRange(s, lo, mid), RStrRange(s, mid + 1, hi))

\* the encoding of a code-point sequence
RStr(s) == RStrRange(s, 1, Len(s))

RECURSIVE RLenRange(_, _, _)
RLenRange(r, lo, hi) ==
  IF lo > hi THEN 0
  ELSE IF lo = hi THEN r[lo][2]
  ELSE LET mid == (lo + hi) \div 2
       IN  RLenRange(r, lo, mid) + RLenRange(r, mid + 1, hi)

\* len(r)
RLen(r) == RLenRange(r, 1, Len(r))

\* the first n characters of runs lo..hi of r, for 0 <= n
RECURSIVE RTakeRange(_, _, _, _)
RTakeRange(r, lo, hi, n) ==
  IF lo > hi \/ n = 0 THEN <<>>
  ELSE IF lo = hi THEN << <<r[lo][1], Min(n, r[lo][2])>> >>
  ELSE LET mid == (lo + hi) \div 2
           left == RLenRange(r, lo, mid)
       IN  IF n <= left
             THEN RTakeRange(r, lo, mid, n)
             ELSE SubSeq(r, lo, mid) \o RTakeRange(r, mid + 1, hi, n - left)

\* r[:n] for n >= 0
RTake(r, n) == RTakeRange(r, 1, Len(r), n)

\* the characters str.strip() removes
Whitespace == {9, 10, 11, 12, 13, 28, 29, 30, 31, 32, 133, 160}

\* bool(content.strip()): some character is not whitespace
StripNonEmpty(content) == \E i \in 1..Len(content) : content[i][1] \notin Whitespace

\* ------------------------------------------------------------------------
\* src/services/github.py
\* ------------------------------------------------------------------------

github_com == <<103, 105, 116, 104, 117, 98, 46, 99, 111, 109>>   \* 'github.com'

dot_git == <<46, 103, 105, 116>>                                  \* '.git'

\* the test that guards the return of parse_github_url
UrlWellFormed(url, parts) == Len(parts) >= 2 /\ Contains(url, github_com)

\* parse_github_url(url): raised, a ValueError left the call; otherwise
\* owner and repo are the returned pair
parse_github_url(url_str) ==
  LET url == RStrip(url_str, Slash)
      parts == Split(url, Slash)
      last == parts[Len(parts)]
  IN  IF UrlWellFormed(url, parts)
        THEN [raised |-> FALSE,
              owner |-> parts[Len(parts) - 1],
              repo |-> IF EndsWith(last, dot_git)
                         THEN SubSeq(last, 1, Len(last) - 4)
                         ELSE last]
        ELSE [raised |-> TRUE, owner |-> <<>>, repo |-> <<>>]

\* A response is what client.get returned: its status, and its JSON body or
\* text.  An exception raised by client.get itself is not a response and is
\* outside the model.

\* HTTP 200, the one status the client functions accept
HTTP_OK == 200

\* faulty variant: the status is not looked at
get_repo_info_Unchecked(resp) == [raised |-> FALSE, json |-> resp.json]

\* get_repo_info on a response: raises GitHubClientError unless the status
\* is 200, else returns the JSON body
get_repo_info(resp) ==
  IF resp.status_code # HTTP_OK
    THEN [raised |-> TRUE, json |-> [has_default_branch |-> FALSE, default_branch |-> <<>>]]
    ELSE [raised |-> FALSE, json |-> resp.json]

\* the conditions under which get_repo_tree raises on a 200 response
TreeRejected(data) == ~data.has_tree

\* get_repo_tree on a response: raises GitHubClientError unless the status
\* is 200 and the body has a "tree" field, else returns data["tree"]
get_repo_tree(resp) ==
  IF resp.status_code # HTTP_OK
    THEN [raised |-> TRUE, message |-> "Failed to fetch repo tree", tree |-> <<>>]
  ELSE IF TreeRejected(resp.json)
    THEN [raised |-> TRUE,
          message |-> IF resp.json.truncated
                        THEN "Repository tree is too large (truncated)."
                        ELSE "Invalid tree response from GitHub.",
          tree |-> <<>>]
  ELSE [raised |-> FALSE, message |-> "", tree |-> resp.json.tree]

\* faulty variant: the body is returned whatever the status
get_raw_file_content_Unchecked(resp) == resp.text

\* get_raw_file_content on a response: "" unless the status is 200
get_raw_file_content(resp) ==
  IF resp.status_code # HTTP_OK THEN <<>> ELSE resp.text

\* ------------------------------------------------------------------------
\* src/services/llm.py
\* ------------------------------------------------------------------------

max_chars == 300000

\* '\n...[CONTENT TRUNCATED]...'
TruncationMarker ==
  RStr(<<10, 46, 46, 46, 91, 67, 79, 78, 84, 69, 78, 84, 32, 84, 82, 85, 78,
         67, 65, 84, 69, 68, 93, 46, 46, 46>>)

\* faulty variant: file_contents is sent whole
TruncateContentsOmitted(file_contents) == file_contents

\* the file_contents that generate_summary places in the prompt
TruncateContents(file_contents) ==
  IF RLen(file_contents) > max_chars
    THEN RCat(RTake(file_contents, max_chars), TruncationMarker)
    ELSE file_contents

\* the outcomes of the chat completion: a JSON object, an empty message,
\* text that json.loads rejects, an exception of the client
LLMOutcomes == {"json_object", "empty", "not_json", "api_error"}

\* the except clause of generate_summary: every failure after the client
\* was built leaves as RuntimeError
LLMRaises(outcome) == outcome # "json_object"

\* ------------------------------------------------------------------------
\* src/services/orchestrator.py
\* ------------------------------------------------------------------------

\* max_files=10, the argument of the orchestrator's prioritize_files call
OrchestratorMaxFiles == 10

main_branch == <<109, 97, 105, 110>>   \* 'main'

\* repo_info.get("default_branch", "main")
DefaultBranch(repo_info) ==
  IF repo_info.has_default_branch THEN repo_info.default_branch ELSE main_branch

\* [item["path"] for item in tree_data[:k] if item["type"] == "blob"]
RECURSIVE BlobPathsPrefix(_, _)
BlobPathsPrefix(tree_data, k) ==
  IF k = 0 THEN <<>>
  ELSE LET before == BlobPathsPrefix(tree_data, k - 1)
       IN  IF tree_data[k].type = "blob"
             THEN Append(before, tree_data[k].path)
             ELSE before

BlobPaths(tree_data) == BlobPathsPrefix(tree_data, Len(tree_data))

FileHeaderOpen == <<10, 10, 45, 45, 45, 32, 70, 73, 76, 69, 58, 32>>   \* '\n\n--- FILE: '

FileHeaderClose == <<32, 45, 45, 45, 10>>                              \* ' ---\n'

\* f"\n\n--- FILE: {path} ---\n{content}\n"
FileBlock(path, content) ==
  RCat(RCat(RStr(FileHeaderOpen \o path \o FileHeaderClose), content), RStr(Newline))

\* the test that decides whether a fetched content gets a block
HasContent(content) == StripNonEmpty(content)

\* for path, content in zip(priority_paths, contents): context_string
\* after the first k iterations
RECURSIVE AssembleLoop(_, _, _)
AssembleLoop(paths, fetched, k) ==
  IF k = 0 THEN <<>>
  ELSE LET before == AssembleLoop(paths, fetched, k - 1)
       IN  IF HasContent(fetched[k])
             THEN RCat(before, FileBlock(paths[k], fetched[k]))
             ELSE before

\* context_string once the loop has ended; zip stops at the shorter list
AssembleContext(paths, fetched) ==
  AssembleLoop(paths, fetched, Min(Len(paths), Len(fetched)))

\* faulty variant: the wait ends with the first task that is done
GatherReadyFirstCompleted(ts) == \E i \in 1..Len(ts) : ts[i].done

\* await asyncio.gather(*fetch_tasks) returns once every task is done
GatherReady(ts) == \A i \in 1..Len(ts) : ts[i].done

\* the list asyncio.gather returns: the tasks' results in task order
GatherResults(ts) == [i \in 1..Len(ts) |-> ts[i].result]

\* ------------------------------------------------------------------------
\* src/api/routes.py
\* ------------------------------------------------------------------------

GenericMessage == "An internal server error occurred."

\* the except clauses of summarize_repo, in order
ErrorResponse(e) ==
  IF e.type = "ValueError"
    THEN [status_code |-> 400, message |-> e.message]
  ELSE IF e.type = "GitHubClientError"
    THEN [status_code |-> 400, message |-> e.message]
  ELSE [status_code |-> 500, message |-> GenericMessage]

\* ------------------------------------------------------------------------
\* The remote services and the requests the model draws from
\* ------------------------------------------------------------------------

\* the github_url values of the requests
Urls ==
  { \* 'https://github.com/tiangolo/fastapi.git/'
    <<104, 116, 116, 112, 115, 58, 47, 47, 103, 105, 116, 104, 117, 98, 46, 99,
      111, 109, 47, 116, 105, 97, 110, 103, 111, 108, 111, 47, 102, 97, 115,
      116, 97, 112, 105, 46, 103, 105, 116, 47>>,
    \* 'https://gitlab.com/a/b'
    <<104, 116, 116, 112, 115, 58, 47, 47, 103, 105, 116, 108, 97, 98, 46, 99,
      111, 109, 47, 97, 47, 98>>,
    \* 'https://github.com/owner'
    <<104, 116, 116, 112, 115, 58, 47, 47, 103, 105, 116, 104, 117, 98, 46, 99,
      111, 109, 47, 111, 119, 110, 101, 114>>,
    \* 'github.com'
    <<103, 105, 116, 104, 117, 98, 46, 99, 111, 109>> }

NoJson == [has_default_branch |-> FALSE, default_branch |-> <<>>]

tiangolo == <<116, 105, 97, 110, 103, 111, 108, 111>>   \* 'tiangolo'

master_branch == <<109, 97, 115, 116, 101, 114>>        \* 'master'

\* the responses of the repository metadata service for owner/repo: a
\* failure; and, for the one owner that exists, a body with default_branch
\* 'master' and a body without the field
InfoResponses(o, r) ==
  { [status_code |-> 404, json |-> NoJson] }
  \cup
  IF o = tiangolo
    THEN { [status_code |-> 200,
            json |-> [has_default_branch |-> TRUE, default_branch |-> master_branch]],
           [status_code |-> 200, json |-> NoJson] }
    ELSE {}

\* the listing of the repository of the scenario: README.md, src/main.py and
\* three noise files, with their directories, in no particular order
TreeScenario ==
  <<
    [path |-> <<115, 114, 99, 47, 109, 97, 105, 110, 46, 112, 121>>, type |-> "blob"],
    [path |-> <<82, 69, 65, 68, 77, 69, 46, 109, 100>>, type |-> "blob"],
    [path |-> <<110, 111, 100, 101, 95, 109, 111, 100, 117, 108, 101, 115>>, type |-> "tree"],
    [path |-> <<110, 111, 100, 101, 95, 109, 111, 100, 117, 108, 101, 115, 47, 120, 46, 106, 115>>, type |-> "blob"],
    [path |-> <<112, 97, 99, 107, 97, 103, 101, 45, 108, 111, 99, 107, 46, 106, 115, 111, 110>>, type |-> "blob"],
    [path |-> <<115, 114, 99>>, type |-> "tree"],
    [path |-> <<108, 111, 103, 111, 46, 112, 110, 103>>, type |-> "blob"]
  >>

\* a listing with more source files than the orchestrator's max_files:
\* k.py, j.py, ..., a.py, README.md
TreeBig ==
  <<
    [path |-> <<107, 46, 112, 121>>, type |-> "blob"],
    [path |-> <<106, 46, 112, 121>>, type |-> "blob"],
    [path |-> <<105, 46, 112, 121>>, type |-> "blob"],
    [path |-> <<104, 46, 112, 121>>, type |-> "blob"],
    [path |-> <<103, 46, 112, 121>>, type |-> "blob"],
    [path |-> <<102, 46, 112, 121>>, type |-> "blob"],
    [path |-> <<101, 46, 112, 121>>, type |-> "blob"],
    [path |-> <<100, 46, 112, 121>>, type |-> "blob"],
    [path |-> <<99, 46, 112, 121>>, type |-> "blob"],
    [path |-> <<98, 46, 112, 121>>, type |-> "blob"],
    [path |-> <<97, 46, 112, 121>>, type |-> "blob"],
    [path |-> <<82, 69, 65, 68, 77, 69, 46, 109, 100>>, type |-> "blob"]
  >>

\* a listing of one file
TreeSingle ==
  << [path |-> <<115, 114, 99, 47, 109, 97, 105, 110, 46, 112, 121>>, type |-> "blob"] >>

TreeJson(has_tree, truncated, tree) ==
  [has_tree |-> has_tree, truncated |-> truncated, tree |-> tree]

\* the responses of the tree service: a failure; bodies without "tree",
\* truncated or not; complete listings; a listing GitHub cut short, which
\* carries both "tree" and "truncated": true.  The big listing is that of
\* branch 'master'.
TreeResponses(branch) ==
  { [status_code |-> 404, json |-> TreeJson(FALSE, FALSE, <<>>)],
    [status_code |-> 200, json |-> TreeJson(FALSE, TRUE, <<>>)],
    [status_code |-> 200, json |-> TreeJson(FALSE, FALSE, <<>>)],
    [status_code |-> 200, json |-> TreeJson(TRUE, FALSE, <<>>)],
    [status_code |-> 200, json |-> TreeJson(TRUE, FALSE, TreeSingle)],
    [status_code |-> 200, json |-> TreeJson(TRUE, FALSE, TreeScenario)],
    [status_code |-> 200, json |-> TreeJson(TRUE, TRUE, TreeScenario)] }
  \cup
  IF branch = master_branch
    THEN { [status_code |-> 200, json |-> TreeJson(TRUE, FALSE, TreeBig)] }
    ELSE {}

README_md == <<82, 69, 65, 68, 77, 69, 46, 109, 100>>   \* 'README.md'

a_py == <<97, 46, 112, 121>>                            \* 'a.py'

b_py == <<98, 46, 112, 121>>                            \* 'b.py'

\* the text of each file of the repository: README.md is 299970 'x', so
\* that its block alone stays under max_chars and any second block exceeds
\* it; a.py is whitespace only; b.py is empty; every other file holds its
\* own path and a newline
RepoBody(path) ==
  IF path = README_md THEN Runs(120, 299970)
  ELSE IF path = a_py THEN RStr(<<32, 32, 10>>)
  ELSE IF path = b_py THEN <<>>
  ELSE RStr(path \o Newline)

\* '404: Not Found'
NotFoundText == RStr(<<52, 48, 52, 58, 32, 78, 111, 116, 32, 70, 111, 117, 110, 100>>)

\* the responses of the raw content service for a path
RawResponses(path) ==
  { [status_code |-> 200, text |-> RepoBody(path)],
    [status_code |-> 404, text |-> NotFoundText] }

\* ------------------------------------------------------------------------
\* The request: summarize_repo and process_github_repo
\* ------------------------------------------------------------------------

NoExc == [type |-> "none", stage |-> "none", message |-> ""]

NoResponse == [status_code |-> 0, message |-> ""]

NoInfoResponse == [status_code |-> 0, json |-> NoJson]

NoTreeResponse == [status_code |-> 0, json |-> TreeJson(FALSE, FALSE, <<>>)]

\* summarize_repo's except clauses: the exception becomes the response
Fail(e) ==
  /\ exc' = e
  /\ response' = ErrorResponse(e)
  /\ pc' = "responded"

\* summarize_repo is entered and calls process_github_repo on the url as a
\* string: parse_github_url, then the metadata request.  (The HttpUrl
\* validation of the request body precedes the handler and is not modelled;
\* Urls holds strings it would refuse, as process_github_repo takes any str.)
HandleRequest ==
  /\ pc = "request"
  /\ LET parsed == parse_github_url(github_url)
     IN  IF parsed.raised
           THEN /\ Fail([type |-> "ValueError", stage |-> "parse",
                         message |-> "Invalid GitHub URL format."])
                /\ UNCHANGED <<owner, repo, requests>>
           ELSE /\ owner' = parsed.owner
                /\ repo' = parsed.repo
                /\ requests' = Append(requests, [service |-> "repos", path |-> <<>>])
                /\ pc' = "await_info"
                /\ UNCHANGED <<exc, response>>
  /\ UNCHANGED <<github_url, default_branch, info_response, tree_response,
                 clean_paths, file_tree_str, priority_paths, tasks, contents,
                 context_string, summary_calls, prompts, pf_vars>>

\* the metadata response arrives: default_branch, then the tree request
RepoInfoResponse ==
  /\ pc = "await_info"
  /\ \E resp \in InfoResponses(owner, repo) :
       /\ info_response' = resp
       /\ LET r == get_repo_info(resp)
          IN  IF r.raised
                THEN /\ Fail([type |-> "GitHubClientError", stage |-> "metadata",
                              message |-> "Could not access repository"])
                     /\ UNCHANGED <<default_branch, requests>>
                ELSE /\ default_branch' = DefaultBranch(r.json)
                     /\ requests' = Append(requests, [service |-> "trees", path |-> <<>>])
                     /\ pc' = "await_tree"
                     /\ UNCHANGED <<exc, response>>
  /\ UNCHANGED <<github_url, owner, repo, tree_response, clean_paths,
                 file_tree_str, priority_paths, tasks, contents,
                 context_string, summary_calls, prompts, pf_vars>>

\* one request per prioritized path, in list order
FetchRequests(paths) == [i \in 1..Len(paths) |-> [service |-> "raw", path |-> paths[i]]]

\* the tree response arrives: blobs, filter, tree string, prioritization,
\* and one fetch task per prioritized path
RepoTreeResponse ==
  /\ pc = "await_tree"
  /\ \E resp \in TreeResponses(default_branch) :
       /\ tree_response' = resp
       /\ LET r == get_repo_tree(resp)
              built == build_tree_string(filter_paths(BlobPaths(r.tree)))
              selected == prioritize_files(built[1], OrchestratorMaxFiles)
          IN  IF r.raised
                THEN /\ Fail([type |-> "GitHubClientError", stage |-> "tree",
                              message |-> "Failed to fetch repo tree"])
                     /\ UNCHANGED <<clean_paths, file_tree_str, priority_paths,
                                    tasks, requests>>
                ELSE /\ clean_paths' = SortPaths(built[1])
                     /\ file_tree_str' = built[2]
                     /\ priority_paths' = selected
                     /\ tasks' = [i \in 1..Len(selected) |->
                                    [done |-> FALSE, status_code |-> 0, result |-> <<>>]]
                     /\ requests' = requests \o FetchRequests(selected)
                     /\ pc' = "await_fetch"
                     /\ UNCHANGED <<exc, response>>
  /\ UNCHANGED <<github_url, owner, repo, default_branch, info_response,
                 contents, context_string, summary_calls, prompts, pf_vars>>

\* the response of one content fetch arrives and its task finishes
FetchResponse ==
  /\ pc = "await_fetch"
  /\ \E i \in 1..Len(tasks) :
       /\ ~tasks[i].done
       /\ \E resp \in RawResponses(priority_paths[i]) :
            tasks' = [tasks EXCEPT ![i] =
                        [done |-> TRUE, status_code |-> resp.status_code,
                         result |-> get_raw_file_content(resp)]]
  /\ UNCHANGED <<pc, github_url, owner, repo, default_branch, info_response,
                 tree_response, clean_paths, file_tree_str, priority_paths,
                 contents, context_string, summary_calls, prompts, requests,
                 exc, response, pf_vars>>

\* asyncio.gather returns: the context string is assembled and
\* generate_summary is called; it builds its client, bounds file_contents and
\* sends the prompt
GatherReturn ==
  /\ pc = "await_fetch"
  /\ GatherReady(tasks)
  /\ contents' = GatherResults(tasks)
  /\ context_string' = AssembleContext(priority_paths, contents')
  /\ summary_calls' = Append(summary_calls,
                        [repo_name |-> repo, file_tree |-> file_tree_str,
                         file_contents |-> context_string'])
  /\ \E client_ok \in BOOLEAN :
       IF client_ok
         THEN /\ prompts' = Append(prompts, TruncateContents(context_string'))
              /\ requests' = Append(requests, [service |-> "chat", path |-> <<>>])
              /\ pc' = "await_llm"
              /\ UNCHANGED <<exc, response>>
         ELSE /\ Fail([type |-> "ValueError", stage |-> "summarizer",
                       message |-> "OpenAI API key missing or invalid."])
              /\ UNCHANGED <<prompts, requests>>
  /\ UNCHANGED <<github_url, owner, repo, default_branch, info_response,
                 tree_response, clean_paths, file_tree_str, priority_paths,
                 tasks, pf_vars>>

\* the chat completion ends: the summary is returned or RuntimeError raised
LLMResponse ==
  /\ pc = "await_llm"
  /\ \E outcome \in LLMOutcomes :
       IF LLMRaises(outcome)
         THEN Fail([type |-> "RuntimeError", stage |-> "summarizer",
                    message |-> "Failed to generate summary"])
         ELSE /\ response' = [status_code |-> 200, message |-> ""]
              /\ pc' = "responded"
              /\ UNCHANGED exc
  /\ UNCHANGED <<github_url, owner, repo, default_branch, info_response,
                 tree_response, clean_paths, file_tree_str, priority_paths,
                 tasks, contents, context_string, summary_calls, prompts,
                 requests, pf_vars>>

PipelineIdle ==
  /\ pc = "off"
  /\ github_url = <<>>
  /\ owner = <<>>
  /\ repo = <<>>
  /\ default_branch = <<>>
  /\ info_response = NoInfoResponse
  /\ tree_response = NoTreeResponse
  /\ clean_paths = <<>>
  /\ file_tree_str = <<>>
  /\ priority_paths = <<>>
  /\ tasks = <<>>
  /\ contents = <<>>
  /\ context_string = <<>>
  /\ summary_calls = <<>>
  /\ prompts = <<>>
  /\ requests = <<>>
  /\ exc = NoExc
  /\ response = NoResponse

PrioritizeIdle ==
  /\ pf_given = <<>>
  /\ pf_paths = <<>>
  /\ pf_max_files = 0
  /\ pf_result = <<>>
  /\ pf_pc = "off"

\* a request has arrived and nothing has run yet
Init ==
  /\ pc = "request"
  /\ github_url \in Urls
  /\ owner = <<>>
  /\ repo = <<>>
  /\ default_branch = <<>>
  /\ info_response = NoInfoResponse
  /\ tree_response = NoTreeResponse
  /\ clean_paths = <<>>
  /\ file_tree_str = <<>>
  /\ priority_paths = <<>>
  /\ tasks = <<>>
  /\ contents = <<>>
  /\ context_string = <<>>
  /\ summary_calls = <<>>
  /\ prompts = <<>>
  /\ requests = <<>>
  /\ exc = NoExc
  /\ response = NoResponse
  /\ PrioritizeIdle

Next ==
  \/ HandleRequest
  \/ RepoInfoResponse
  \/ RepoTreeResponse
  \/ FetchResponse
  \/ GatherReturn
  \/ LLMResponse

Spec == Init /\ [][Next]_vars

\* ------------------------------------------------------------------------
\* prioritize_files called on its own
\* ------------------------------------------------------------------------

\* the paths the calls of SpecPrioritize draw their lists from
PathUniverse ==
  { <<82, 69, 65, 68, 77, 69, 46, 109, 100>>,                                 \* 'README.md'
    <<100, 111, 99, 115, 47, 82, 101, 97, 100, 109, 101, 46, 116, 120, 116>>, \* 'docs/Readme.txt'
    <<115, 101, 116, 117, 112, 46, 112, 121>>,                                \* 'setup.py'
    <<115, 114, 99, 47, 109, 97, 105, 110, 46, 112, 121>>,                    \* 'src/main.py'
    <<97, 47, 98, 47, 99, 47, 109, 97, 105, 110, 46, 112, 121>>,              \* 'a/b/c/main.py'
    <<100, 97, 116, 97, 46, 99, 115, 118>> }                                  \* 'data.csv'

\* every list of at most n paths of the universe, repeats included
ListsUpTo(n) == UNION {[1..k -> PathUniverse] : k \in 0..n}

\* the call: paths.sort() rearranges the caller's list, the result is returned
CallPrioritize ==
  /\ pf_pc = "called"
  /\ pf_paths' = SortPaths(pf_paths)
  /\ pf_result' = prioritize_files(pf_paths, pf_max_files)
  /\ pf_pc' = "returned"
  /\ UNCHANGED <<pf_given, pf_max_files, pipeline_vars>>

InitPrioritize ==
  /\ pf_given \in ListsUpTo(MaxLen)
  /\ pf_paths = pf_given
  /\ pf_max_files \in 0..MaxFilesArg
  /\ pf_result = <<>>
  /\ pf_pc = "called"
  /\ PipelineIdle

NextPrioritize == CallPrioritize

SpecPrioritize == InitPrioritize /\ [][NextPrioritize]_vars

\* ------------------------------------------------------------------------
\* Properties
\* ------------------------------------------------------------------------

\* r[n:] for runs lo..hi of r, for n >= 0
RECURSIVE RDropRange(_, _, _, _)
RDropRange(r, lo, hi, n) ==
  IF lo > hi THEN <<>>
  ELSE IF n = 0 THEN SubSeq(r, lo, hi)
  ELSE IF lo = hi
    THEN (IF r[lo][2] > n THEN << <<r[lo][1], r[lo][2] - n>> >> ELSE <<>>)
  ELSE LET mid == (lo + hi) \div 2
           left == RLenRange(r, lo, mid)
       IN  IF n < left
             THEN RDropRange(r, lo, mid, n) \o SubSeq(r, mid + 1, hi)
             ELSE RDropRange(r, mid + 1, hi, n - left)

RDrop(r, n) == RDropRange(r, 1, Len(r), n)

NoDuplicates(s) == \A i, j \in 1..Len(s) : s[i] = s[j] => i = j

\* every fetch task has finished
AllFetchesDone == \A i \in 1..Len(tasks) : tasks[i].done

\* the fetch tasks whose response was not a success
FailedFetches == {i \in 1..Len(tasks) : tasks[i].done /\ tasks[i].status_code # 200}

\* the fetch tasks whose response was a success
SucceededFetches == {i \in 1..Len(tasks) : tasks[i].done /\ tasks[i].status_code = 200}

\* some character of the body is not whitespace
NonBlank(body) == \E i \in 1..Len(body) : body[i][2] > 0 /\ body[i][1] \notin Whitespace

\* the blocks of the first k prioritized paths, in list order, a path in
\* `served` contributing the block of its body in the repository when that
\* body is not blank, every other path nothing
RECURSIVE BlocksOf(_, _)
BlocksOf(served, k) ==
  IF k = 0 THEN <<>>
  ELSE IF k \in served /\ NonBlank(RepoBody(priority_paths[k]))
    THEN RCat(BlocksOf(served, k - 1),
              RCat(RCat(RStr(FileHeaderOpen \o priority_paths[k] \o FileHeaderClose),
                        RepoBody(priority_paths[k])),
                   RStr(Newline)))
  ELSE BlocksOf(served, k - 1)

\* the requests made of the raw content service, in the order issued
RECURSIVE RawRequestsPrefix(_)
RawRequestsPrefix(k) ==
  IF k = 0 THEN <<>>
  ELSE IF requests[k].service = "raw"
    THEN Append(RawRequestsPrefix(k - 1), requests[k].path)
  ELSE RawRequestsPrefix(k - 1)

RawRequested == RawRequestsPrefix(Len(requests))

Services == {requests[k].service : k \in 1..Len(requests)}

TreeFetchFailed ==
  /\ tree_response.status_code # 0
  /\ \/ tree_response.status_code # 200
     \/ ~tree_response.json.has_tree

\* C2: when the metadata response has a non-success status the request ends
\* with GitHubClientError and no tree request, no content request and no
\* summarizer call was made; when the tree fetch fails the request ends with
\* GitHubClientError and no content request and no summarizer call was made.
C2_StageOrderOnFailure ==
  /\ info_response.status_code \notin {0, 200} =>
       /\ pc = "responded"
       /\ exc.type = "GitHubClientError"
       /\ Services = {"repos"}
       /\ tasks = <<>>
       /\ summary_calls = <<>>
  /\ TreeFetchFailed =>
       /\ pc = "responded"
       /\ exc.type = "GitHubClientError"
       /\ Services = {"repos", "trees"}
       /\ tasks = <<>>
       /\ summary_calls = <<>>

\* C2 witness: the metadata fetch got a 404 and the request has ended
C2_Witness ==
  /\ info_response.status_code = 404
  /\ pc = "responded"
  /\ exc.stage = "metadata"

\* C3, as claimed: get_repo_tree fails when the response is not successful,
\* is marked truncated, or lacks the listing; the request then ends with
\* GitHubClientError of the tree stage, with no path selected or fetched.
C3_TreeFetcherRejects ==
  (/\ tree_response.status_code # 0
   /\ \/ tree_response.status_code # 200
      \/ tree_response.json.truncated
      \/ ~tree_response.json.has_tree)
  => /\ pc = "responded"
     /\ exc.type = "GitHubClientError"
     /\ exc.stage = "tree"
     /\ priority_paths = <<>>
     /\ tasks = <<>>

\* the paths of the given list that Category 1 or Category 2 selects
ManifestsAndEntrypoints == {p \in {pf_given[i] : i \in 1..Len(pf_given)} : IsKeyFile(p) \/ IsCoreFile(p)}

\* C4: prioritize_files returns at most max_files paths and no path twice,
\* for every list, with or without repeated paths, and every max_files >= 0.
C4_BoundedNoDuplicates ==
  pf_pc = "returned" =>
    /\ Len(pf_result) <= pf_max_files
    /\ NoDuplicates(pf_result)

\* C4 witness: a list with a repeated path whose Category 1 and 2 matches
\* alone outnumber max_files
C4_Witness ==
  /\ pf_pc = "returned"
  /\ ~NoDuplicates(pf_given)
  /\ Cardinality(ManifestsAndEntrypoints) > pf_max_files
  /\ pf_max_files >= 1
  /\ Len(pf_result) = pf_max_files

\* the rearrangements of a list
Rearrangements(s) ==
  {[i \in 1..Len(s) |-> s[f[i]]] : f \in Permutations(1..Len(s))}

\* C5: every rearrangement of the given list, with the same max_files, yields
\* the same list in the same order, and so does a second call on the list the
\* first call left behind.
C5_OrderIndependent ==
  pf_pc = "returned" =>
    /\ \A other \in Rearrangements(pf_given) :
         prioritize_files(other, pf_max_files) = pf_result
    /\ prioritize_files(pf_paths, pf_max_files) = pf_result

\* C5 witness: a list of distinct paths given out of order, two or more of
\* them selected
C5_Witness ==
  /\ pf_pc = "returned"
  /\ Len(pf_given) >= 2
  /\ NoDuplicates(pf_given)
  /\ pf_given # pf_paths
  /\ Len(pf_result) >= 2

\* the url lacks 'github.com', or fewer than two '/'-delimited segments
\* follow the segment that holds it
LacksHostOrSegments(url) ==
  LET parts == Split(RStrip(url, Slash), Slash)
      hosts == {i \in 1..Len(parts) : Contains(parts[i], github_com)}
  IN  \/ hosts = {}
      \/ Len(parts) - (CHOOSE i \in hosts : \A j \in hosts : i <= j) < 2

\* C6, as claimed: a url without the host marker, or without two path
\* segments after the host, makes parse_github_url raise ValueError, which
\* ends the request with no remote call made.
C6_ParserRejects ==
  (pc # "request" /\ LacksHostOrSegments(github_url))
  => /\ exc.type = "ValueError"
     /\ exc.stage = "parse"
     /\ requests = <<>>
     /\ owner = <<>>
     /\ repo = <<>>

\* selected by Category 3 only: a recognized source extension, and neither a
\* Category 1 nor a Category 2 match
FillOnly(path) == IsSourceFile(path) /\ ~IsKeyFile(path) /\ ~IsCoreFile(path)

\* C7: in the returned list every Category 1 match stands before every path
\* that only Category 3 selects.
C7_ManifestsBeforeFill ==
  pf_pc = "returned" =>
    \A i, j \in 1..Len(pf_result) :
      (IsKeyFile(pf_result[i]) /\ FillOnly(pf_result[j])) => i < j

\* C7 witness: the result holds a Category 1 match and a Category-3-only
\* path that sorts before it
C7_Witness ==
  /\ pf_pc = "returned"
  /\ \E i, j \in 1..Len(pf_result) :
       /\ IsKeyFile(pf_result[i])
       /\ FillOnly(pf_result[j])
       /\ StrLess(pf_result[j], pf_result[i])

\* C8: every file_contents sent to the model is at most max_chars plus the
\* marker's length; a context string longer than max_chars is sent as its
\* first max_chars characters followed by the marker; one of at most
\* max_chars characters is sent unchanged.
C8_ContextBounded ==
  \A k \in 1..Len(prompts) :
    /\ RLen(prompts[k]) <= max_chars + RLen(TruncationMarker)
    /\ RLen(context_string) > max_chars =>
         /\ RTake(prompts[k], max_chars) = RTake(context_string, max_chars)
         /\ RDrop(prompts[k], max_chars) = TruncationMarker
    /\ RLen(context_string) <= max_chars => prompts[k] = context_string

\* C8 witness: a context string longer than max_chars was sent
C8_Witness ==
  /\ Len(prompts) = 1
  /\ RLen(context_string) > max_chars
  /\ RLen(prompts[1]) = max_chars + 26

\* C9, as claimed: a failed request is answered 400 with the error's own
\* message exactly when the error is the parser's or that of the metadata or
\* tree stage; every other failure, those of the summarizer included, is
\* answered 500 with the generic message.
C9_ErrorClassification ==
  (pc = "responded" /\ exc.type # "none")
  => IF exc.stage \in {"parse", "metadata", "tree"}
       THEN response.status_code = 400 /\ response.message = exc.message
       ELSE response.status_code = 500 /\ response.message = GenericMessage

\* the tree stage succeeded and the fetches were issued
FetchesIssued == pc = "await_fetch" \/ summary_calls # <<>>

\* C10: the raw content service is asked once for each prioritized path, in
\* list order, and for nothing else: at most 10 requests, no path twice,
\* none repeated later; the context is not assembled and the summarizer not
\* called before every fetch is done; and the context is the blocks, in
\* prioritized order, of the paths whose own fetch returned a body that is
\* not blank, each block holding that path's body.
C10_FanIn ==
  /\ RawRequested = (IF FetchesIssued THEN priority_paths ELSE <<>>)
  /\ Len(RawRequested) <= 10
  /\ NoDuplicates(RawRequested)
  /\ Len(tasks) = Len(RawRequested)
  /\ (context_string # <<>> \/ summary_calls # <<>> \/ contents # <<>>)
       => AllFetchesDone
  /\ summary_calls # <<>> =>
       /\ Len(contents) = Len(priority_paths)
       /\ \A i \in 1..Len(tasks) :
            contents[i] = IF tasks[i].status_code = 200
                            THEN RepoBody(priority_paths[i])
                            ELSE <<>>
       /\ context_string = BlocksOf(SucceededFetches, Len(priority_paths))

\* C10 witness: more clean paths than max_files, ten fetches done in some
\* order, some failed, some blank, and the context assembled
C10_Witness ==
  /\ Len(clean_paths) > 10
  /\ Len(tasks) = 10
  /\ summary_calls # <<>>
  /\ FailedFetches # {}
  /\ \E i \in SucceededFetches : ~NonBlank(contents[i])
  /\ context_string # <<>>

====
